---- MODULE Spec2Model ----
(***************************************************************************)
(* Reserve planner (src/planner.py): the allocation builder                *)
(* (build_allocations), the template scaler (_scale_pallets, _round_div)   *)
(* and the truck packer (pack_trucks).                                     *)
(*                                                                         *)
(* Representation.                                                         *)
(*  - A Python dict is a function whose DOMAIN is the set of keys present; *)
(*    a dict whose iteration order matters (pallets_by_supplier,           *)
(*    template.entries) is a sequence of records with distinct keys, in    *)
(*    insertion order.                                                     *)
(*  - Quantities and pallet weights are floats in the source; here they    *)
(*    are fixed-point integers counting halves (Half units make one), so   *)
(*    that rounding and ceiling are real computations.                     *)
(*  - Dates are integers ordered as datetimes are.                         *)
(*  - Display names (rc_name, plu_name, supplier_name), the shoulder map   *)
(*    and the logger are pass-through data that no branch reads; they are  *)
(*    left out.                                                            *)
(*  - An allocation item carries a field id: the identity of the Python    *)
(*    object (its position in the list pack_trucks was given).  No         *)
(*    operation reads it; row_item records which item each row slices.     *)
(***************************************************************************)
EXTENDS Integers, Sequences, FiniteSets, TLC

\* ------------------------------------------------------------------ bounds
MaxItems == 2
MaxPallets == 2
MaxCap == 2
MaxSplit == 3
MaxBase == 4
MaxDemand == 4
MaxDemandRows == 2
MaxQty == 3
\* quantities and weights count fractions 1/Half of a unit
Half == 2

\* supplier ids
Suppliers == {1, 2}

\* (date, rc, plu) triples the allocation items of the packer are drawn from:
\* every position decides the order of some pair against the later positions.
PackKeys == { <<1, 1, 2>>, <<1, 2, 1>>, <<1, 2, 2>>, <<2, 1, 1>> }

None == "None"

\* template=None; `if template` holds of every TemplateData object
NoTemplate == [ present |-> FALSE, entries |-> <<>>, pallet_weight |-> <<>> ]

\* ----------------------------------------------------------------- helpers
Min(a, b) == IF a <= b THEN a ELSE b

Max(a, b) == IF a >= b THEN a ELSE b

RECURSIVE SumSeq(_)
SumSeq(s) == IF s = <<>> THEN 0 ELSE Head(s) + SumSeq(Tail(s))

\* dict.get(k, default)
Get(d, k, default) == IF k \in DOMAIN d THEN d[k] ELSE default

\* sorted(set of integers)
RECURSIVE SortedSeq(_)
SortedSeq(S) ==
  IF S = {} THEN <<>>
  ELSE LET m == CHOOSE x \in S : \A y \in S : x <= y
       IN <<m>> \o SortedSeq(S \ {m})

\* ------------------------------------------------------------- pack_trucks
\* key=lambda x: (x.date, x.rc, x.plu), compared as Python compares tuples
SortKey(item) == <<item.date, item.rc, item.plu>>

TupleLess(a, b) ==
  \/ a[1] < b[1]
  \/ a[1] = b[1] /\ a[2] < b[2]
  \/ a[1] = b[1] /\ a[2] = b[2] /\ a[3] < b[3]

\* a packer that keeps the items of a supplier in the order they arrived
SortItemsNoSort(s) == s

\* sorted(seq, key=SortKey): stable, so x goes after every element whose key
\* is not greater than its own
InsertByKey(sorted, x) ==
  LET n == Cardinality({ i \in 1..Len(sorted) : ~TupleLess(SortKey(x), SortKey(sorted[i])) })
  IN SubSeq(sorted, 1, n) \o <<x>> \o SubSeq(sorted, n + 1, Len(sorted))

RECURSIVE SortItems(_)
SortItems(s) ==
  IF s = <<>> THEN <<>>
  ELSE InsertByKey(SortItems(SubSeq(s, 1, Len(s) - 1)), s[Len(s)])

\* grouped[supplier]: the supplier's items in the order of the input list
Grouped(its, s) == SelectSeq(its, LAMBDA it : it.supplier = s)

\* the suppliers in the order the dict first saw them: `for supplier in grouped`
RECURSIVE FirstSeenOrder(_)
FirstSeenOrder(its) ==
  IF its = <<>> THEN <<>>
  ELSE LET front == FirstSeenOrder(SubSeq(its, 1, Len(its) - 1))
           s == its[Len(its)].supplier
       IN IF \E i \in 1..Len(front) : front[i] = s THEN front ELSE Append(front, s)

\* sorted(grouped.keys())
SupplierOrder(its) == SortedSeq({ its[i].supplier : i \in 1..Len(its) })

\* cap = reserve.max_pallets.get(supplier, options.default_truck_pallets)
TruckCap(res, opts, s) == Get(res.max_pallets, s, opts.default_truck_pallets)

OutputRow(item, s, take, truck) ==
  [ date |-> item.date, supplier |-> s, plu |-> item.plu, rc |-> item.rc,
    volume |-> take * item.pallet_weight, truck_id |-> truck,
    pallet_weight |-> item.pallet_weight, pallets |-> take ]

\* a fill step that takes all the pallets left, whatever the truck still holds
FillBodyTakeAll(st, item, s, c) ==
  LET fresh == st.remaining = 0
      cur == IF fresh THEN st.truck_id ELSE st.current_truck
      tid == IF fresh THEN st.truck_id + 1 ELSE st.truck_id
      rem == IF fresh THEN c ELSE st.remaining
      take == st.pallets_left
  IN [ rows |-> Append(st.rows, OutputRow(item, s, take, cur)),
       row_item |-> Append(st.row_item, item.id),
       truck_id |-> tid,
       current_truck |-> cur,
       remaining |-> rem - take,
       pallets_left |-> st.pallets_left - take ]

\* a fill step that books the whole room of the truck, whatever the item has left
FillBodyTakeRemaining(st, item, s, c) ==
  LET fresh == st.remaining = 0
      cur == IF fresh THEN st.truck_id ELSE st.current_truck
      tid == IF fresh THEN st.truck_id + 1 ELSE st.truck_id
      rem == IF fresh THEN c ELSE st.remaining
      take == rem
  IN [ rows |-> Append(st.rows, OutputRow(item, s, take, cur)),
       row_item |-> Append(st.row_item, item.id),
       truck_id |-> tid,
       current_truck |-> cur,
       remaining |-> rem - take,
       pallets_left |-> st.pallets_left - take ]

\* one iteration of `while pallets_left > 0`
FillBody(st, item, s, c) ==
  LET fresh == st.remaining = 0
      cur == IF fresh THEN st.truck_id ELSE st.current_truck
      tid == IF fresh THEN st.truck_id + 1 ELSE st.truck_id
      rem == IF fresh THEN c ELSE st.remaining
      take == Min(rem, st.pallets_left)
  IN [ rows |-> Append(st.rows, OutputRow(item, s, take, cur)),
       row_item |-> Append(st.row_item, item.id),
       truck_id |-> tid,
       current_truck |-> cur,
       remaining |-> rem - take,
       pallets_left |-> st.pallets_left - take ]

\* ---------------------------------------------------------- _scale_pallets
\* int(round(x)) for x >= 0 given in fractions 1/Half: Python rounds to the
\* nearest integer and an exact half to the even neighbour
PyRound(q) ==
  LET w == q \div Half
      r == q % Half
  IN IF 2 * r < Half THEN w
     ELSE IF 2 * r > Half THEN w + 1
     ELSE IF w % 2 = 0 THEN w ELSE w + 1

\* a division that drops the fraction instead of rounding it
_round_div_floor(numer, denom) ==
  IF denom <= 0 THEN 0 ELSE numer \div denom

\* int((numer + denom / 2) // denom), denom / 2 being a float division
_round_div(numer, denom) ==
  IF denom <= 0 THEN 0 ELSE (2 * numer + denom) \div (2 * denom)

SplitTotal(pbs) == SumSeq([ i \in 1..Len(pbs) |-> pbs[i].pallets ])

\* numer // base_demand and numer % base_demand of the supplier at position i
ScaleBase(pbs, base, dint, i) == (pbs[i].pallets * dint) \div base

ScaleRem(pbs, base, dint, i) == (pbs[i].pallets * dint) % base

\* an ascending sort read backwards: equal remainders come out last first
InsertDescTiesReversed(sorted, x) ==
  LET n == Cardinality({ i \in 1..Len(sorted) : sorted[i].rem > x.rem })
  IN SubSeq(sorted, 1, n) \o <<x>> \o SubSeq(sorted, n + 1, Len(sorted))

\* remainders.sort(key=lambda x: x[1], reverse=True): stable also when reversed
InsertDesc(sorted, x) ==
  LET n == Cardinality({ i \in 1..Len(sorted) : sorted[i].rem >= x.rem })
  IN SubSeq(sorted, 1, n) \o <<x>> \o SubSeq(sorted, n + 1, Len(sorted))

\* remainders.sort(key=lambda x: x[1])
InsertAsc(sorted, x) ==
  LET n == Cardinality({ i \in 1..Len(sorted) : sorted[i].rem <= x.rem })
  IN SubSeq(sorted, 1, n) \o <<x>> \o SubSeq(sorted, n + 1, Len(sorted))

RECURSIVE SortDesc(_)
SortDesc(s) ==
  IF s = <<>> THEN <<>>
  ELSE InsertDesc(SortDesc(SubSeq(s, 1, Len(s) - 1)), s[Len(s)])

RECURSIVE SortAsc(_)
SortAsc(s) ==
  IF s = <<>> THEN <<>>
  ELSE InsertAsc(SortAsc(SubSeq(s, 1, Len(s) - 1)), s[Len(s)])

\* the suppliers of remainders[:n]
FirstSuppliers(rems, n) == { rems[i].supplier : i \in 1..Min(Max(n, 0), Len(rems)) }

_scale_pallets(pbs, base_demand, demand_value) ==
  LET demand_int == Max(0, PyRound(demand_value))
  IN IF base_demand <= 0 \/ demand_int <= 0 THEN <<>>
     ELSE
       LET desired_total == _round_div(SplitTotal(pbs) * demand_int, base_demand)
           remainders == [ i \in 1..Len(pbs) |->
                             [ supplier |-> pbs[i].supplier,
                               rem |-> ScaleRem(pbs, base_demand, demand_int, i) ] ]
           total_scaled == SumSeq([ i \in 1..Len(pbs) |->
                                      ScaleBase(pbs, base_demand, demand_int, i) ])
           delta == desired_total - total_scaled
           up == IF delta > 0 THEN FirstSuppliers(SortDesc(remainders), delta) ELSE {}
           down == IF delta < 0 THEN FirstSuppliers(SortAsc(remainders), -delta) ELSE {}
           scaled == [ i \in 1..Len(pbs) |->
                         LET b == ScaleBase(pbs, base_demand, demand_int, i)
                         IN [ supplier |-> pbs[i].supplier,
                              pallets |-> IF pbs[i].supplier \in up THEN b + 1
                                          ELSE IF pbs[i].supplier \in down THEN Max(0, b - 1)
                                          ELSE b ] ]
       IN SelectSeq(scaled, LAMBDA e : e.pallets > 0)

\* ------------------------------------------------------- build_allocations
DemandKey(row) == <<row.rc, row.plu, row.date>>

\* demand_by_key after the first loop
DemandByKey(rows) ==
  [ k \in { DemandKey(rows[i]) : i \in 1..Len(rows) } |->
      SumSeq([ i \in 1..Len(rows) |-> IF DemandKey(rows[i]) = k THEN rows[i].qty ELSE 0 ]) ]

\* a base demand rounded up, where the scaler rounds the demand to nearest
WithBaseDemandCeil(tpl, dbk) ==
  IF ~tpl.present THEN tpl
  ELSE [ tpl EXCEPT !.entries =
           [ i \in 1..Len(tpl.entries) |->
               [ tpl.entries[i] EXCEPT
                   !.base_demand = (Get(dbk, tpl.entries[i].key, 0) + Half - 1) \div Half ] ] ]

\* entry.base_demand = int(round(demand_by_key.get(key, 0.0))) for every entry
WithBaseDemand(tpl, dbk) ==
  IF ~tpl.present THEN tpl
  ELSE [ tpl EXCEPT !.entries =
           [ i \in 1..Len(tpl.entries) |->
               [ tpl.entries[i] EXCEPT !.base_demand = PyRound(Get(dbk, tpl.entries[i].key, 0)) ] ] ]

\* position of key in template.entries, 0 when absent
EntryIndex(tpl, key) ==
  IF \E i \in 1..Len(tpl.entries) : tpl.entries[i].key = key
  THEN CHOOSE i \in 1..Len(tpl.entries) : tpl.entries[i].key = key
  ELSE 0

\* reserve.pallet_weight.get(plu) or template.pallet_weight.get(plu), else 1.0;
\* a missing weight and a zero weight are both falsy, and 0 stands for both
PalletWeight(res, tpl, plu) ==
  LET a == Get(res.pallet_weight, plu, 0)
      b == IF a # 0 THEN a
           ELSE IF tpl.present THEN Get(tpl.pallet_weight, plu, 0) ELSE 0
  IN IF b # 0 THEN b ELSE Half

\* math.ceil(q / w) for w > 0
CeilDiv(q, w) == (q + w - 1) \div w

\* a split chosen with `and` in place of `or` in the elif of the template branch
RowSplitBothFlags(row, res, tpl, opts) ==
  LET key == DemandKey(row)
      at == IF tpl.present /\ opts.use_template THEN EntryIndex(tpl, key) ELSE 0
  IN IF at # 0
     THEN LET entry == tpl.entries[at]
          IN IF opts.scale_template /\ entry.base_demand > 0
             THEN _scale_pallets(entry.pallets_by_supplier, entry.base_demand, row.qty)
             ELSE IF opts.use_template_when_no_demand /\ ~opts.scale_template
             THEN entry.pallets_by_supplier
             ELSE <<>>
     ELSE LET pallets_total == CeilDiv(row.qty, PalletWeight(res, tpl, row.plu))
              suppliers == Get(res.suppliers_by_plu, row.plu, <<>>)
              supplier == IF suppliers # <<>> THEN suppliers[1] ELSE 0
          IN IF supplier # 0
             THEN << [ supplier |-> supplier, pallets |-> pallets_total ] >>
             ELSE <<>>

\* a fallback that caps the pallets by the reserve quantity of the supplier
\* unless ignore_reserve_limits is set
RowSplitCapped(row, res, tpl, opts) ==
  LET key == DemandKey(row)
      at == IF tpl.present /\ opts.use_template THEN EntryIndex(tpl, key) ELSE 0
  IN IF at # 0
     THEN LET entry == tpl.entries[at]
          IN IF opts.scale_template /\ entry.base_demand > 0
             THEN _scale_pallets(entry.pallets_by_supplier, entry.base_demand, row.qty)
             ELSE IF opts.use_template_when_no_demand \/ ~opts.scale_template
             THEN entry.pallets_by_supplier
             ELSE <<>>
     ELSE LET pw == PalletWeight(res, tpl, row.plu)
              suppliers == Get(res.suppliers_by_plu, row.plu, <<>>)
              supplier == IF suppliers # <<>> THEN suppliers[1] ELSE 0
              pallets_total ==
                IF opts.ignore_reserve_limits THEN CeilDiv(row.qty, pw)
                ELSE Min(CeilDiv(row.qty, pw),
                         CeilDiv(Get(res.reserve, <<supplier, row.plu>>, 0), pw))
          IN IF supplier # 0
             THEN << [ supplier |-> supplier, pallets |-> pallets_total ] >>
             ELSE <<>>

\* pallets_by_supplier of one demand row
RowSplit(row, res, tpl, opts) ==
  LET key == DemandKey(row)
      at == IF tpl.present /\ opts.use_template THEN EntryIndex(tpl, key) ELSE 0
  IN IF at # 0
     THEN LET entry == tpl.entries[at]
          IN IF opts.scale_template /\ entry.base_demand > 0
             THEN _scale_pallets(entry.pallets_by_supplier, entry.base_demand, row.qty)
             ELSE IF opts.use_template_when_no_demand \/ ~opts.scale_template
             THEN entry.pallets_by_supplier
             ELSE <<>>
     ELSE LET pallets_total == CeilDiv(row.qty, PalletWeight(res, tpl, row.plu))
              suppliers == Get(res.suppliers_by_plu, row.plu, <<>>)
              supplier == IF suppliers # <<>> THEN suppliers[1] ELSE 0
          IN IF supplier # 0
             THEN << [ supplier |-> supplier, pallets |-> pallets_total ] >>
             ELSE <<>>

\* items appended without the `if pallets <= 0: continue`
SplitItemsKeepZero(split, key, pw, n) ==
  [ i \in 1..Len(split) |->
      [ rc |-> key[1], plu |-> key[2], date |-> key[3],
        supplier |-> split[i].supplier, pallet_weight |-> pw,
        pallets |-> split[i].pallets, id |-> n + i ] ]

\* the AllocationItems appended for one split, n items being in the list already
SplitItems(split, key, pw, n) ==
  LET kept == SelectSeq(split, LAMBDA e : e.pallets > 0)
  IN [ i \in 1..Len(kept) |->
         [ rc |-> key[1], plu |-> key[2], date |-> key[3],
           supplier |-> kept[i].supplier, pallet_weight |-> pw,
           pallets |-> kept[i].pallets, id |-> n + i ] ]

\* one iteration of the second `for row in demand_rows`
RowItems(row, res, tpl, opts, n) ==
  SplitItems(RowSplit(row, res, tpl, opts), DemandKey(row),
             PalletWeight(res, tpl, row.plu), n)

\* the loop over template.entries for keys without demand
RECURSIVE TemplateOnlyItems(_, _, _, _, _)
TemplateOnlyItems(tpl, dbk, res, i, n) ==
  IF i > Len(tpl.entries) THEN <<>>
  ELSE LET e == tpl.entries[i]
           new == IF e.key \in DOMAIN dbk THEN <<>>
                  ELSE SplitItems(e.pallets_by_supplier, e.key,
                                  PalletWeight(res, tpl, e.key[2]), n)
       IN new \o TemplateOnlyItems(tpl, dbk, res, i + 1, n + Len(new))

\* =================================================================== state
VARIABLES
  pc,            \* where the run stands
  demand_rows,   \* build_allocations: the demand records
  reserve,       \* ReserveInfo
  template,      \* TemplateData, or NoTemplate
  options,       \* RunOptions
  demand_by_key, \* build_allocations: the aggregated demand
  row_idx,       \* build_allocations: rows of the second loop done so far
  items,         \* the allocation items (built, then packed)
  order,         \* pack_trucks: suppliers of sorted(grouped.keys()) still to do
  supplier,      \* pack_trucks: loop variable
  cap,
  remaining,
  current_truck,
  truck_id,
  items_sorted,  \* pack_trucks: items of the supplier still to do
  item,          \* pack_trucks: loop variable
  pallets_left,
  rows,          \* pack_trucks: the output rows
  row_item,      \* for each output row, the id of the item it slices
  run,           \* 1, or 2 when the same items are packed again in another order
  rows_ref,      \* the output rows of the first call
  items_ref,     \* the allocation items of the first call
  pbs,           \* _scale_pallets: pallets_by_supplier
  base_demand,   \* _scale_pallets: argument
  demand_value,  \* _scale_pallets: argument
  scaled         \* _scale_pallets: result

buildVars == <<demand_rows, reserve, template, options, demand_by_key, row_idx>>

packVars == <<order, supplier, cap, remaining, current_truck, truck_id,
              items_sorted, item, pallets_left, rows, row_item>>

scaleVars == <<pbs, base_demand, demand_value, scaled>>

refVars == <<run, rows_ref, items_ref>>

vars == <<pc, buildVars, items, packVars, refVars, scaleVars>>

\* ------------------------------------------------------------------ inputs
\* RunOptions() as the dataclass defaults it, but for default_truck_pallets
DefaultOptions(dtp) ==
  [ use_template |-> TRUE, scale_template |-> TRUE,
    include_template_without_demand |-> TRUE,
    use_template_when_no_demand |-> TRUE, ignore_reserve_limits |-> TRUE,
    default_truck_pallets |-> dtp ]

\* ReserveInfo.reserve as load_reserve fills it: a quantity for every
\* (supplier, product) pair that suppliers_by_plu lists
ReserveQty(sbp, q) ==
  [ sp \in UNION { { <<sbp[p][i], p>> : i \in 1..Len(sbp[p]) } : p \in DOMAIN sbp } |-> q ]

\* the ReserveInfo that load_reserve returns, as far as the planner reads it
Catalog(pw, sbp, mp, q) ==
  [ pallet_weight |-> pw, suppliers_by_plu |-> sbp, max_pallets |-> mp,
    reserve |-> ReserveQty(sbp, q) ]

\* max_pallets: any dict from suppliers to a capacity of zero or one; a supplier
\* it lacks has default_truck_pallets
MaxPalletsDicts == UNION { [D -> {0, 1}] : D \in SUBSET Suppliers }

\* allocation items as pack_trucks may be handed them: pallets positive
PackItems ==
  { [ rc |-> k[2], plu |-> k[3], date |-> k[1], supplier |-> s,
      pallet_weight |-> Half * k[3], pallets |-> p, id |-> 0 ] :
      k \in PackKeys, s \in Suppliers, p \in 1..MaxPallets }

SeqsUpTo(S, n) == UNION { [1..m -> S] : m \in 0..n }

\* the object identities of a list: its positions
Numbered(its) == [ i \in 1..Len(its) |-> [ its[i] EXCEPT !.id = i ] ]

TotalPallets(its) == SumSeq([ i \in 1..Len(its) |-> its[i].pallets ])

\* No run that ends emits more rows than there are pallets.  The model keeps
\* the first RowLimit rows of a run (and the truck counter up to there): a run
\* that passes this length goes on looping, its further rows unrecorded.
RowLimit == TotalPallets(items) + 1

\* rows go unrecorded only where the loop makes no progress: the capacity is 0
\* and no pallet is ever taken
RowLimitOnlyWithoutProgress ==
  (pc = "body" /\ Len(rows) >= RowLimit) => cap = 0

PackIdle ==
  /\ order = <<>> /\ supplier = 0 /\ cap = 0 /\ remaining = 0
  /\ current_truck = 0 /\ truck_id = 0 /\ items_sorted = <<>> /\ item = None
  /\ pallets_left = 0 /\ rows = <<>> /\ row_item = <<>>

ScaleIdle == pbs = <<>> /\ base_demand = 0 /\ demand_value = 0 /\ scaled = <<>>

BuildIdle ==
  /\ demand_rows = <<>> /\ template = NoTemplate /\ demand_by_key = <<>> /\ row_idx = 0

\* pack_trucks called on a list of allocation items
InitPack ==
  /\ pc = "pack"
  /\ items \in { Numbered(l) : l \in SeqsUpTo(PackItems, MaxItems) }
  /\ reserve \in { Catalog(<<>>, <<>>, mp, Half) : mp \in MaxPalletsDicts }
  /\ options = DefaultOptions(MaxCap)
  /\ run = 1 /\ rows_ref = <<>> /\ items_ref = <<>>
  /\ BuildIdle /\ PackIdle /\ ScaleIdle

\* ------------------------------------------------------------- pack_trucks
\* grouped = ...; rows = []; truck_id = 1
PackStart ==
  /\ pc = "pack"
  /\ pc' = "supplier"
  /\ order' = SupplierOrder(items)
  /\ rows' = <<>> /\ row_item' = <<>>
  /\ truck_id' = 1
  /\ UNCHANGED <<buildVars, items, supplier, cap, remaining, current_truck,
                 items_sorted, item, pallets_left, refVars, scaleVars>>

\* a supplier loop that starts every supplier's trucks at 1 again
NextSupplierOwnIds ==
  /\ pc = "supplier" /\ order # <<>>
  /\ pc' = "item"
  /\ supplier' = Head(order)
  /\ order' = Tail(order)
  /\ cap' = TruckCap(reserve, options, Head(order))
  /\ remaining' = 0
  /\ current_truck' = 0
  /\ truck_id' = 1
  /\ items_sorted' = SortItems(Grouped(items, Head(order)))
  /\ UNCHANGED <<buildVars, items, item, pallets_left, rows, row_item,
                 refVars, scaleVars>>

\* a supplier loop that goes on filling the truck the previous supplier left
NextSupplierKeepsTruck ==
  /\ pc = "supplier" /\ order # <<>>
  /\ pc' = "item"
  /\ supplier' = Head(order)
  /\ order' = Tail(order)
  /\ cap' = TruckCap(reserve, options, Head(order))
  /\ items_sorted' = SortItems(Grouped(items, Head(order)))
  /\ UNCHANGED <<buildVars, items, remaining, current_truck, truck_id, item,
                 pallets_left, rows, row_item, refVars, scaleVars>>

\* for supplier in sorted(grouped.keys()): cap, remaining, current_truck, items_sorted
NextSupplier ==
  /\ pc = "supplier" /\ order # <<>>
  /\ pc' = "item"
  /\ supplier' = Head(order)
  /\ order' = Tail(order)
  /\ cap' = TruckCap(reserve, options, Head(order))
  /\ remaining' = 0
  /\ current_truck' = 0
  /\ items_sorted' = SortItems(Grouped(items, Head(order)))
  /\ UNCHANGED <<buildVars, items, truck_id, item, pallets_left, rows, row_item,
                 refVars, scaleVars>>

\* the supplier loop is exhausted: return rows
PackReturn ==
  /\ pc = "supplier" /\ order = <<>>
  /\ pc' = "done"
  /\ UNCHANGED <<buildVars, items, packVars, refVars, scaleVars>>

\* for item in items_sorted: pallets_left = item.pallets
NextItem ==
  /\ pc = "item" /\ items_sorted # <<>>
  /\ pc' = "fill"
  /\ item' = Head(items_sorted)
  /\ items_sorted' = Tail(items_sorted)
  /\ pallets_left' = Head(items_sorted).pallets
  /\ UNCHANGED <<buildVars, items, order, supplier, cap, remaining, current_truck,
                 truck_id, rows, row_item, refVars, scaleVars>>

\* the item loop of the supplier is exhausted
SupplierDone ==
  /\ pc = "item" /\ items_sorted = <<>>
  /\ pc' = "supplier"
  /\ UNCHANGED <<buildVars, items, packVars, refVars, scaleVars>>

\* `while pallets_left > 0` holds: enter the body
WhileTest ==
  /\ pc = "fill" /\ pallets_left > 0
  /\ pc' = "body"
  /\ UNCHANGED <<buildVars, items, packVars, refVars, scaleVars>>

\* the body of `while pallets_left > 0`
FillStep ==
  /\ pc = "body"
  /\ pc' = "fill"
  /\ LET st == FillBody([ rows |-> rows, row_item |-> row_item, truck_id |-> truck_id,
                          current_truck |-> current_truck, remaining |-> remaining,
                          pallets_left |-> pallets_left ], item, supplier, cap)
         kept == Len(rows) < RowLimit
     IN /\ rows' = IF kept THEN st.rows ELSE rows
        /\ row_item' = IF kept THEN st.row_item ELSE row_item
        /\ truck_id' = IF kept THEN st.truck_id ELSE truck_id
        /\ current_truck' = IF kept THEN st.current_truck ELSE current_truck
        /\ remaining' = st.remaining
        /\ pallets_left' = st.pallets_left
  /\ UNCHANGED <<buildVars, items, order, supplier, cap, items_sorted, item,
                 refVars, scaleVars>>

\* the while loop ends
ItemDone ==
  /\ pc = "fill" /\ pallets_left <= 0
  /\ pc' = "item"
  /\ UNCHANGED <<buildVars, items, packVars, refVars, scaleVars>>

PackStep ==
  \/ PackStart \/ NextSupplier \/ PackReturn \/ NextItem \/ SupplierDone
  \/ WhileTest \/ FillStep \/ ItemDone

\* The same allocation items are handed to pack_trucks again in another order
\* of the list; the rows of the first call are kept for comparison.
Repack ==
  /\ pc = "done" /\ run = 1
  /\ \E p \in { q \in [1..Len(items) -> 1..Len(items)] :
                  \A i, j \in 1..Len(items) : i # j => q[i] # q[j] } :
       /\ \E i \in 1..Len(items) : p[i] # i
       /\ items' = [ i \in 1..Len(items) |-> items[p[i]] ]
  /\ run' = 2
  /\ rows_ref' = rows /\ items_ref' = items
  /\ pc' = "pack"
  /\ order' = <<>> /\ supplier' = 0 /\ cap' = 0 /\ remaining' = 0
  /\ current_truck' = 0 /\ truck_id' = 0 /\ items_sorted' = <<>> /\ item' = None
  /\ pallets_left' = 0 /\ rows' = <<>> /\ row_item' = <<>>
  /\ UNCHANGED <<buildVars, scaleVars>>

PackSpec == InitPack /\ [][PackStep]_vars

\* pack_trucks called twice on the same items, every supplier's capacity being
\* default_truck_pallets, so that both calls return
InitPerm ==
  /\ pc = "pack"
  /\ items \in { Numbered(l) : l \in SeqsUpTo(PackItems, MaxItems) }
  /\ reserve = Catalog(<<>>, <<>>, <<>>, Half)
  /\ options \in { DefaultOptions(d) : d \in 1..MaxCap }
  /\ run = 1 /\ rows_ref = <<>> /\ items_ref = <<>>
  /\ BuildIdle /\ PackIdle /\ ScaleIdle

NextPerm == PackStep \/ Repack

PermSpec == InitPerm /\ [][NextPerm]_vars

\* ------------------------------------------------------- build_allocations
\* demand_by_key, and base_demand of every template entry
Aggregate ==
  /\ pc = "build"
  /\ pc' = "rows"
  /\ demand_by_key' = DemandByKey(demand_rows)
  /\ template' = WithBaseDemand(template, DemandByKey(demand_rows))
  /\ items' = <<>>
  /\ row_idx' = 0
  /\ UNCHANGED <<demand_rows, reserve, options, packVars, refVars, scaleVars>>

\* one iteration of the second `for row in demand_rows`
BuildRow ==
  /\ pc = "rows" /\ row_idx < Len(demand_rows)
  /\ items' = items \o RowItems(demand_rows[row_idx + 1], reserve, template, options,
                                Len(items))
  /\ row_idx' = row_idx + 1
  /\ UNCHANGED <<pc, demand_rows, reserve, template, options, demand_by_key,
                 packVars, refVars, scaleVars>>

\* the template entries without demand, and `return items` into pack_trucks
TemplateOnly ==
  /\ pc = "rows" /\ row_idx = Len(demand_rows)
  /\ pc' = "pack"
  /\ items' = IF template.present /\ options.use_template
                 /\ options.include_template_without_demand
              THEN items \o TemplateOnlyItems(template, demand_by_key, reserve, 1, Len(items))
              ELSE items
  /\ UNCHANGED <<buildVars, packVars, refVars, scaleVars>>

BuildStep == Aggregate \/ BuildRow \/ TemplateOnly

\* ---------------------------------------------------------------- run_plan
\* the demand keys (rc, plu, date) of the demand records
DemandKeys == { <<1, 1, 1>>, <<1, 2, 1>> }

DemandRecords ==
  { [ rc |-> k[1], plu |-> k[2], date |-> k[3], qty |-> q ] :
      k \in DemandKeys, q \in 1..MaxQty }

\* catalogs: the pallet weight absent, zero or two units; the suppliers of a
\* product absent, none or listed; the truck capacity absent, zero or set
PalletWeightDicts == { <<>>, (1 :> 0) @@ (2 :> 0), (1 :> 2 * Half) @@ (2 :> 2 * Half) }

SuppliersByPluDicts ==
  { <<>>, (1 :> <<2, 1>>) @@ (2 :> <<>>), (1 :> <<1>>) @@ (2 :> <<2>>) }

CatalogCaps == { <<>>, (1 :> 0) @@ (2 :> 1) }

\* templates as load_template leaves them: base_demand 0, total_pallets the sum
Entry(key, split) ==
  [ key |-> key, pallets_by_supplier |-> split, total_pallets |-> SplitTotal(split),
    base_demand |-> 0 ]

Pair(s, p) == [ supplier |-> s, pallets |-> p ]

Templates ==
  { [ present |-> TRUE,
      entries |-> << Entry(<<1, 1, 1>>, << Pair(1, 2), Pair(2, 1) >>),
                     Entry(<<2, 1, 2>>, << Pair(2, 1), Pair(1, 0) >>) >>,
      pallet_weight |-> <<>> ],
    [ present |-> TRUE,
      entries |-> << Entry(<<1, 2, 1>>, << Pair(2, 1), Pair(1, 1) >>) >>,
      pallet_weight |-> (1 :> Half) @@ (2 :> Half) ] }

OptionSets ==
  [ use_template : BOOLEAN, scale_template : BOOLEAN,
    include_template_without_demand : BOOLEAN,
    use_template_when_no_demand : BOOLEAN, ignore_reserve_limits : BOOLEAN,
    default_truck_pallets : {MaxCap} ]

\* build_allocations, then pack_trucks, on decoded records
Init ==
  /\ pc = "build"
  /\ demand_rows \in SeqsUpTo(DemandRecords, MaxDemandRows)
  /\ reserve \in { Catalog(pw, sbp, mp, Half) : pw \in PalletWeightDicts,
                                                  sbp \in SuppliersByPluDicts,
                                                  mp \in CatalogCaps }
  /\ template \in {NoTemplate} \cup Templates
  /\ options \in OptionSets
  /\ demand_by_key = <<>> /\ row_idx = 0
  /\ items = <<>>
  /\ run = 1 /\ rows_ref = <<>> /\ items_ref = <<>>
  /\ PackIdle /\ ScaleIdle

Next == BuildStep \/ PackStep

Spec == Init /\ [][Next]_vars

\* The runs on at most one demand record, include_template_without_demand and
\* ignore_reserve_limits left at their defaults, for the check of termination.
InitFair ==
  /\ Init
  /\ Len(demand_rows) <= 1
  /\ options.include_template_without_demand
  /\ options.ignore_reserve_limits

\* the run is one thread that takes its next step whenever it has one
FairSpec == InitFair /\ [][Next]_vars /\ WF_vars(Next)

\* build_allocations alone, up to its `return items`; it reads neither
\* max_pallets nor default_truck_pallets
InitBuild ==
  /\ Init
  /\ reserve.max_pallets = <<>>
  /\ options.ignore_reserve_limits

NextBuild == Aggregate \/ BuildRow \/ TemplateOnly

BuildSpec == InitBuild /\ [][NextBuild]_vars

\* The same files are planned a second time with ignore_reserve_limits
\* switched, the reserve quantities changed, or both; the allocation items and
\* the output rows of the first run are kept for comparison.
Rerun ==
  /\ pc = "done" /\ run = 1
  /\ \E flip \in BOOLEAN, q \in {Half, 2 * Half} :
       /\ flip \/ q # Half
       /\ options' = [ options EXCEPT !.ignore_reserve_limits = IF flip THEN ~@ ELSE @ ]
       /\ reserve' = [ reserve EXCEPT !.reserve = ReserveQty(reserve.suppliers_by_plu, q) ]
  /\ template' = IF template.present
                 THEN [ template EXCEPT !.entries =
                          [ i \in 1..Len(template.entries) |->
                              [ template.entries[i] EXCEPT !.base_demand = 0 ] ] ]
                 ELSE template
  /\ run' = 2
  /\ rows_ref' = rows /\ items_ref' = items
  /\ pc' = "build"
  /\ demand_by_key' = <<>> /\ row_idx' = 0 /\ items' = <<>>
  /\ order' = <<>> /\ supplier' = 0 /\ cap' = 0 /\ remaining' = 0
  /\ current_truck' = 0 /\ truck_id' = 0 /\ items_sorted' = <<>> /\ item' = None
  /\ pallets_left' = 0 /\ rows' = <<>> /\ row_item' = <<>>
  /\ UNCHANGED <<demand_rows, scaleVars>>

\* run_plan on files whose catalog names no truck capacity, so that the run
\* returns; the template flags left at their defaults
InitRerun ==
  /\ Init
  /\ reserve.max_pallets = <<>>
  /\ \E b \in BOOLEAN :
       options = [ DefaultOptions(MaxCap) EXCEPT !.ignore_reserve_limits = b ]

NextRerun == BuildStep \/ PackStep \/ Rerun

RerunSpec == InitRerun /\ [][NextRerun]_vars

\* ---------------------------------------------------------- _scale_pallets
\* a historical split: distinct suppliers in insertion order, counts >= 0
Splits ==
  { sp \in SeqsUpTo([ supplier : 1..MaxSplit, pallets : 0..MaxPallets ], MaxSplit) :
      \A i, j \in 1..Len(sp) : i # j => sp[i].supplier # sp[j].supplier }

\* _scale_pallets called on a split, a base demand and a new demand
InitScale ==
  /\ pc = "scale"
  /\ pbs \in Splits
  /\ base_demand \in 0..MaxBase
  /\ demand_value \in 0..(MaxDemand * Half)
  /\ scaled = <<>>
  /\ reserve = None /\ options = None /\ items = <<>>
  /\ run = 1 /\ rows_ref = <<>> /\ items_ref = <<>>
  /\ BuildIdle /\ PackIdle

Scale ==
  /\ pc = "scale"
  /\ pc' = "scaled"
  /\ scaled' = _scale_pallets(pbs, base_demand, demand_value)
  /\ UNCHANGED <<buildVars, items, packVars, refVars, pbs, base_demand, demand_value>>

NextScale == Scale

ScaleSpec == InitScale /\ [][NextScale]_vars

\* ================================================================== claims
RowKey(r) == <<r.date, r.rc, r.plu>>

TruckIds == { rows[i].truck_id : i \in 1..Len(rows) }

TruckLoad(t) ==
  SumSeq([ i \in 1..Len(rows) |-> IF rows[i].truck_id = t THEN rows[i].pallets ELSE 0 ])

InFillLoop == pc \in {"item", "fill", "body"}

\* C1: for a supplier with truck capacity C >= 1 the counter `remaining` stays
\* within 0..C at every step of the fill loop, and the pallets of the output
\* rows that carry one truck id sum to at most C.
C1_RemainingWithinCap ==
  /\ (InFillLoop /\ cap >= 1) => remaining \in 0..cap
  /\ \A i \in 1..Len(rows) :
       LET c == TruckCap(reserve, options, rows[i].supplier)
       IN c >= 1 => TruckLoad(rows[i].truck_id) <= c

\* a truck filled to the brim by slices of two items, and an item cut in two
C1_Witness ==
  /\ pc = "fill" /\ cap = 2 /\ remaining = 0 /\ pallets_left = 1
  /\ Len(rows) = 2
  /\ rows[1].truck_id = rows[2].truck_id
  /\ row_item[1] # row_item[2]
  /\ TruckLoad(rows[1].truck_id) = cap

\* C2: the truck ids of the output rows are exactly 1..N for some N >= 0, and
\* they never decrease in emission order, also from one supplier to the next.
C2_TruckIdsOneCounter ==
  /\ TruckIds = 1..Cardinality(TruckIds)
  /\ \A i, j \in 1..Len(rows) : i < j => rows[i].truck_id <= rows[j].truck_id

\* two suppliers, the second one's trucks numbered on from the first one's
C2_Witness ==
  /\ pc = "done"
  /\ Cardinality({ rows[i].supplier : i \in 1..Len(rows) }) = 2
  /\ Cardinality(TruckIds) >= 3
  /\ rows[Len(rows)].supplier # rows[1].supplier
  /\ rows[Len(rows)].truck_id = Cardinality(TruckIds)

\* C7: the truck capacity used for a supplier is the catalog's max_pallets
\* value when that value is present and non-zero, and default_truck_pallets in
\* every other case (absent, or present but zero).
C7_CapFallsBackOnZero ==
  InFillLoop =>
    cap = IF supplier \in DOMAIN reserve.max_pallets /\ reserve.max_pallets[supplier] # 0
          THEN reserve.max_pallets[supplier]
          ELSE options.default_truck_pallets

\* C8: rows are emitted supplier by supplier in ascending supplier id, within a
\* supplier in ascending (date, rc, plu) order of the items they slice, the
\* slices of one item contiguous and in ascending truck id.
C8_EmissionOrder ==
  \A i, j \in 1..Len(rows) : i < j =>
    /\ rows[i].supplier <= rows[j].supplier
    /\ rows[i].supplier = rows[j].supplier => ~TupleLess(RowKey(rows[j]), RowKey(rows[i]))
    /\ row_item[i] = row_item[j] =>
         /\ rows[i].truck_id < rows[j].truck_id
         /\ \A k \in i..j : row_item[k] = row_item[i]

\* two items of one supplier handed over in descending key order, one of them
\* cut into two slices
C8_Witness ==
  /\ pc = "done" /\ run = 1
  /\ Len(items) = 2
  /\ items[1].supplier = items[2].supplier
  /\ TupleLess(SortKey(items[2]), SortKey(items[1]))
  /\ Len(rows) = 3
  /\ row_item[1] = 2 /\ row_item[3] = 1

SameSlot(a, b) == a.supplier = b.supplier /\ SortKey(a) = SortKey(b)

\* C9 as stated: whatever the order of the list of allocation items, also when
\* items share supplier, date, rc and plu and differ in pallets, the output
\* rows are the same sequence.
C9_AnyPermutationSameRows ==
  (pc = "done" /\ run = 2) => rows = rows_ref

\* the second list keeps the relative order of the items that share supplier,
\* date, rc and plu and are not identical otherwise
KeepsTiedOrder ==
  \A i, j \in 1..Len(items) :
    (i < j /\ SameSlot(items[i], items[j]) /\ items[i].id > items[j].id)
      => [ items[i] EXCEPT !.id = 0 ] = [ items[j] EXCEPT !.id = 0 ]

\* C9 as amended: the output rows are the same sequence for every permutation
\* of the list that keeps the relative order of the items sharing supplier,
\* date, rc and plu that are not identical in their other fields.
C9_TiedOrderKeptSameRows ==
  (pc = "done" /\ run = 2 /\ KeepsTiedOrder) => rows = rows_ref

\* two suppliers and two keys, the list reversed, the same rows as before
C9_Witness ==
  /\ pc = "done" /\ run = 2 /\ KeepsTiedOrder
  /\ Len(items) = 2 /\ items[1].id = 2
  /\ items[1].supplier > items[2].supplier
  /\ Len(rows) >= 3
  /\ rows = rows_ref

\* the pallets the result gives a supplier, 0 when it was dropped
PalletsIn(sp, s) ==
  SumSeq([ i \in 1..Len(sp) |-> IF sp[i].supplier = s THEN sp[i].pallets ELSE 0 ])

ScaleApplies == pc = "scaled" /\ base_demand > 0 /\ PyRound(demand_value) >= 1

FloorTotal ==
  SumSeq([ i \in 1..Len(pbs) |-> ScaleBase(pbs, base_demand, PyRound(demand_value), i) ])

\* the supplier at position i of the split got one pallet above its floor part
GotExtra(i) ==
  PalletsIn(scaled, pbs[i].supplier)
    = ScaleBase(pbs, base_demand, PyRound(demand_value), i) + 1

\* C3: for base_demand > 0 and a demand rounding to demand_int >= 1 the
\* returned counts sum to total_old * demand_int / base_demand rounded half-up,
\* every returned count is >= 1, and only suppliers of the split appear.
C3_ScaledSumIsDesiredTotal ==
  ScaleApplies =>
    LET n == SplitTotal(scaled)
        q == 2 * SplitTotal(pbs) * PyRound(demand_value) + base_demand
    IN /\ 2 * n * base_demand <= q
       /\ q < 2 * (n + 1) * base_demand
       /\ \A i \in 1..Len(scaled) :
            /\ scaled[i].pallets >= 1
            /\ \E j \in 1..Len(pbs) : pbs[j].supplier = scaled[i].supplier

\* pallets handed out above the floor parts, and a supplier dropped at zero
C3_Witness ==
  /\ ScaleApplies
  /\ SplitTotal(scaled) > FloorTotal
  /\ Len(scaled) = 2 /\ Len(pbs) = 3
  /\ SplitTotal(scaled) # SplitTotal(pbs)

\* C10: the extra pallets go to the suppliers in descending remainder, and of
\* two suppliers with equal remainder the later one of the split gets an extra
\* pallet only if the earlier one does.
C10_ExtraByRemainderThenOrder ==
  ScaleApplies =>
    \A i, j \in 1..Len(pbs) :
      LET ri == ScaleRem(pbs, base_demand, PyRound(demand_value), i)
          rj == ScaleRem(pbs, base_demand, PyRound(demand_value), j)
      IN (GotExtra(j) /\ (ri > rj \/ (ri = rj /\ i < j))) => GotExtra(i)

\* two suppliers tie on the remainder and only the earlier one gets the pallet
C10_Witness ==
  /\ ScaleApplies
  /\ \E i, j \in 1..Len(pbs) :
       /\ i < j
       /\ ScaleRem(pbs, base_demand, PyRound(demand_value), i)
            = ScaleRem(pbs, base_demand, PyRound(demand_value), j)
       /\ GotExtra(i) /\ ~GotExtra(j)

ItemKey(it) == <<it.rc, it.plu, it.date>>

Built == pc \notin {"build", "rows"}

\* the key takes the reserve fallback path
OnFallbackPath(k) ==
  ~template.present \/ ~options.use_template \/ EntryIndex(template, k) = 0

\* C4: build_allocations followed by pack_trucks terminates and returns its
\* rows for every well-typed input, a zero truck capacity included.
C4_RunTerminates == <>(pc = "done")

\* C5: however many demand records share a key, the result holds at most one
\* allocation item per (demand key, supplier).
C5_OneItemPerKeyAndSupplier ==
  Built =>
    \A i, j \in 1..Len(items) :
      (i # j /\ ItemKey(items[i]) \in DOMAIN demand_by_key)
        => ~(ItemKey(items[i]) = ItemKey(items[j])
             /\ items[i].supplier = items[j].supplier)

\* C6: on the fallback path the pallets allocated for a demand key total
\* ceil(aggregated quantity / pallet weight), all with the first supplier of
\* suppliers_by_plu; with that list empty or missing the key has no item.
C6_FallbackPalletsOfKey ==
  Built =>
    \A k \in DOMAIN demand_by_key :
      OnFallbackPath(k) =>
        LET suppliers == Get(reserve.suppliers_by_plu, k[2], <<>>)
            mine == SelectSeq(items, LAMBDA it : ItemKey(it) = k)
        IN IF suppliers = <<>> THEN mine = <<>>
           ELSE /\ TotalPallets(mine)
                     = CeilDiv(demand_by_key[k], PalletWeight(reserve, template, k[2]))
                /\ \A i \in 1..Len(mine) : mine[i].supplier = suppliers[1]


\* the (supplier, pallets) pairs of a list of allocation items, in list order
PairsOf(its) == [ i \in 1..Len(its) |-> [ supplier |-> its[i].supplier, pallets |-> its[i].pallets ] ]

ItemsOfKey(k) == SelectSeq(items, LAMBDA it : ItemKey(it) = k)

RecordsOfKey(k) == SelectSeq(demand_rows, LAMBDA r : DemandKey(r) = k)

Positive(split) == SelectSeq(split, LAMBDA e : e.pallets > 0)

RECURSIVE Flatten(_)
Flatten(ss) == IF ss = <<>> THEN <<>> ELSE Head(ss) \o Flatten(Tail(ss))

EntryOf(k) == template.entries[EntryIndex(template, k)]

\* the demand keys that the template holds, on a run that uses the template
TemplateKeysInDemand ==
  IF template.present /\ options.use_template
  THEN { k \in DOMAIN demand_by_key : EntryIndex(template, k) # 0 }
  ELSE {}

C11_HistoricalReached ==
  /\ pc = "pack" /\ options.scale_template /\ options.use_template_when_no_demand
  /\ <<1, 1, 1>> \in TemplateKeysInDemand
  /\ EntryOf(<<1, 1, 1>>).base_demand = 0
  /\ PairsOf(ItemsOfKey(<<1, 1, 1>>)) = << Pair(1, 2), Pair(2, 1) >>

C11_NoItemReached ==
  /\ pc = "pack" /\ options.scale_template /\ ~options.use_template_when_no_demand
  /\ <<1, 1, 1>> \in TemplateKeysInDemand
  /\ EntryOf(<<1, 1, 1>>).base_demand = 0
  /\ ItemsOfKey(<<1, 1, 1>>) = <<>>

\* the template entries whose key the aggregated demand lacks
EntriesWithoutDemand ==
  IF template.present
  THEN { i \in 1..Len(template.entries) : template.entries[i].key \notin DOMAIN demand_by_key }
  ELSE {}

\* C12: for a template entry whose key is absent from the aggregated demand,
\* when use_template and include_template_without_demand are both true there
\* is exactly one allocation item per supplier of the entry's historical split
\* with pallets > 0, carrying the historical count unscaled; when
\* include_template_without_demand is false no allocation item has that key.
C12_TemplateOnlyEntries ==
  (Built /\ run = 1) =>
    \A i \in EntriesWithoutDemand :
      LET e == template.entries[i]
      IN /\ (options.use_template /\ options.include_template_without_demand) =>
              PairsOf(ItemsOfKey(e.key)) = Positive(e.pallets_by_supplier)
         /\ ~options.include_template_without_demand => ItemsOfKey(e.key) = <<>>

\* an entry without demand whose split holds a supplier with 0 pallets: one
\* item, for the other supplier, after the items of the demand records
C12_Witness ==
  /\ pc = "pack" /\ options.use_template /\ options.include_template_without_demand
  /\ 2 \in EntriesWithoutDemand
  /\ template.entries[2].pallets_by_supplier = << Pair(2, 1), Pair(1, 0) >>
  /\ PairsOf(ItemsOfKey(<<2, 1, 2>>)) = << Pair(2, 1) >>
  /\ Len(items) > 1
  /\ ItemKey(items[Len(items)]) = <<2, 1, 2>>

C12_ExcludedReached ==
  /\ pc = "pack" /\ options.use_template /\ ~options.include_template_without_demand
  /\ 2 \in EntriesWithoutDemand
  /\ ItemsOfKey(<<2, 1, 2>>) = <<>>
  /\ items # <<>>

\* C16: scaling is the identity on a demand key supplied by a single demand
\* record: with use_template and scale_template true and base_demand > 0 the
\* allocation items of the key carry exactly the positive pallet counts of the
\* historical split, as they do with scale_template false.
C16_SingleRecordScalingIsIdentity ==
  (Built /\ run = 1 /\ options.scale_template) =>
    \A k \in TemplateKeysInDemand :
      (Len(RecordsOfKey(k)) = 1 /\ EntryOf(k).base_demand > 0)
        => PairsOf(ItemsOfKey(k)) = Positive(EntryOf(k).pallets_by_supplier)

\* a single record of 1.5 units: the base demand and the demand both round to
\* 2, and the 2 and 1 pallets of the split come back
C16_Witness ==
  /\ pc = "pack" /\ options.scale_template
  /\ <<1, 1, 1>> \in TemplateKeysInDemand
  /\ Len(RecordsOfKey(<<1, 1, 1>>)) = 1
  /\ RecordsOfKey(<<1, 1, 1>>)[1].qty = 3
  /\ EntryOf(<<1, 1, 1>>).base_demand = 2
  /\ PairsOf(ItemsOfKey(<<1, 1, 1>>)) = << Pair(1, 2), Pair(2, 1) >>

\* C13: every truck id is used by rows of exactly one supplier: no two output
\* rows with the same truck id have different supplier ids, also when the
\* previous supplier's last truck was left partly empty.
C13_OneSupplierPerTruck ==
  \A i, j \in 1..Len(rows) :
    rows[i].truck_id = rows[j].truck_id => rows[i].supplier = rows[j].supplier

\* supplier 1's only truck leaves with room to spare and supplier 2's row is on
\* the next truck
C13_Witness ==
  /\ pc = "done" /\ run = 1
  /\ Len(rows) = 2
  /\ rows[1].supplier = 1 /\ rows[2].supplier = 2
  /\ rows[1].pallets < TruckCap(reserve, options, 1)
  /\ rows[1].truck_id = 1 /\ rows[2].truck_id = 2

ItemWithId(n) == CHOOSE it \in { items[i] : i \in 1..Len(items) } : it.id = n

\* the pallets of the output rows cut from the item with id n
RowPallets(n) ==
  SumSeq([ r \in 1..Len(rows) |-> IF row_item[r] = n THEN rows[r].pallets ELSE 0 ])

\* C15: pack_trucks conserves pallets: with every supplier's capacity >= 1,
\* each allocation item with p > 0 pallets is cut into output rows whose
\* pallets sum to p, every output row has pallets >= 1 and copies the item's
\* date, product, distribution center and pallet weight, and the pallets of all
\* output rows sum to the pallets of all allocation items.
C15_PackConservesPallets ==
  /\ \A r \in 1..Len(rows) :
       TruckCap(reserve, options, rows[r].supplier) >= 1 =>
         LET it == ItemWithId(row_item[r])
         IN /\ rows[r].pallets >= 1
            /\ rows[r].date = it.date /\ rows[r].plu = it.plu /\ rows[r].rc = it.rc
            /\ rows[r].pallet_weight = it.pallet_weight
            /\ RowPallets(it.id) <= it.pallets
  /\ pc = "done" =>
       /\ \A i \in 1..Len(items) : RowPallets(items[i].id) = items[i].pallets
       /\ SumSeq([ r \in 1..Len(rows) |-> rows[r].pallets ]) = TotalPallets(items)

\* two items of a supplier with capacity 1, the second one cut into two rows
C15_Witness ==
  /\ pc = "done" /\ run = 1
  /\ Len(items) = 2 /\ Len(rows) = 3
  /\ items[1].supplier = items[2].supplier
  /\ TruckCap(reserve, options, items[1].supplier) = 1
  /\ RowPallets(1) = 1 /\ RowPallets(2) = 2
  /\ row_item[2] = row_item[3]

\* C14: ignore_reserve_limits is a no-op and the reserve quantities are never
\* used as a cap: a second run on the same inputs with ignore_reserve_limits
\* switched, or with other reserve quantities for the same suppliers_by_plu,
\* produces the same allocation items and the same output rows.
C14_ReserveLimitsNeverRead ==
  /\ (Built /\ run = 2) => items = items_ref
  /\ (pc = "done" /\ run = 2) => rows = rows_ref

\* a second run with the flag switched off and the reserve quantity below the
\* demand of a record resolved by the fallback: 2 pallets again
C14_Witness ==
  /\ pc = "done" /\ run = 2
  /\ ~options.ignore_reserve_limits
  /\ ~template.present
  /\ Len(demand_rows) = 1 /\ demand_rows[1].qty = 3 /\ demand_rows[1].plu = 1
  /\ reserve.pallet_weight = <<>>
  /\ Get(reserve.suppliers_by_plu, 1, <<>>) = <<2, 1>>
  /\ Get(reserve.reserve, <<2, 1>>, 0) = Half
  /\ Len(items) = 1 /\ items[1].pallets = 2 /\ items[1].supplier = 2
  /\ rows # <<>>

C14_QuantityChangedReached ==
  /\ pc = "done" /\ run = 2
  /\ ~options.ignore_reserve_limits
  /\ DOMAIN reserve.reserve # {}
  /\ \A sp \in DOMAIN reserve.reserve : reserve.reserve[sp] = 2 * Half
  /\ rows # <<>>
====
